---- MODULE Spec2Model ----
(***************************************************************************)
(* Model of src/lib.rs: the I2C command-framing layer (Command,            *)
(* Connection) and the production transport (I2CStream) that implements    *)
(* hal_stream::Stream on top of i2c_linux.                                 *)
(*                                                                         *)
(* A thread owns one Connection.  A Connection call frames the Command and *)
(* invokes one Stream method.  An I2CStream method is a short program of   *)
(* system calls (open, set slave address, set timeout, bus operation);     *)
(* each system call is one step, so that calls of different threads        *)
(* interleave on the shared bus exactly at the system-call boundaries.     *)
(***************************************************************************)
EXTENDS Integers, Sequences, FiniteSets, TLC

\* ---- bounds ------------------------------------------------------------
MaxByte == 1
MaxData == 2
MaxRx == 1
MaxDelay == 1
MaxGap == 1
MaxCalls == 1
NumThreads == 2
MaxBusCalls == 2
MaxSeqCalls == 3

\* ---- values ------------------------------------------------------------
Byte == 0..MaxByte

SeqsUpTo(S, n) == UNION {[1..k -> S] : k \in 0..n}

\* pub struct Command { cmd: u8, data: Vec<u8> }
Command == [cmd : Byte, data : SeqsUpTo(Byte, MaxData)]

NoCommand == [cmd |-> 0, data |-> <<>>]

\* std::io::Result<T>: Ok(()) / Ok(Vec<u8>) / Ok(usize) / Err(cause)
OkUnit == [ok |-> TRUE, ty |-> "unit", bytes |-> <<>>, count |-> 0, err |-> "none"]

OkBytes(b) == [ok |-> TRUE, ty |-> "bytes", bytes |-> b, count |-> 0, err |-> "none"]

OkCount(n) == [ok |-> TRUE, ty |-> "count", bytes |-> <<>>, count |-> n, err |-> "none"]

Err(c) == [ok |-> FALSE, ty |-> "err", bytes |-> <<>>, count |-> 0, err |-> c]

NoResult == [ok |-> FALSE, ty |-> "none", bytes |-> <<>>, count |-> 0, err |-> "none"]

\* causes an i2c_linux bus operation can fail with
BusErrors == {"nack", "timeout"}

\* vec![0; n]
Zeros(n) == [i \in 1..n |-> 0]

WriteMethods == {"write", "write_bytes"}

ReadMethods == {"read", "read_timeout", "transfer"}

Methods == WriteMethods \cup ReadMethods

\* ---- Connection (command framing) --------------------------------------
Flatten_Push(command) == command.data \o <<command.cmd>>

Flatten_NoInsert(command) == command.data

\* let mut buf = command.data; buf.insert(0, command.cmd);
Flatten(command) == <<command.cmd>> \o command.data

StreamMethod_ReadTimeout(op) == IF op = "read" THEN "read_timeout" ELSE op

StreamMethod_WriteAsTransfer(op) == IF op = "write" THEN "transfer" ELSE op

\* the Stream method each Connection method invokes: self.stream.<op>(buf, ..)
StreamMethod(op) ==
    CASE op = "write" -> "write"
      [] op = "read" -> "read"
      [] op = "transfer" -> "transfer"

ConnResult_Swallow(r) == IF r.ok THEN OkBytes(Zeros(Len(r.bytes))) ELSE OkBytes(<<>>)

\* the Stream call is the tail expression of every Connection method
ConnResult(r) == r

\* ---- I2CStream: the system calls of each method, in program order -------
StepsOf_AddrAfterBus(m) ==
    CASE m \in WriteMethods -> <<"open", "write", "addr">>
      [] m = "read" -> <<"open", "read", "addr">>
      [] m = "read_timeout" -> <<"open", "timeout", "read", "addr">>
      [] m = "transfer" -> <<"open", "xfer", "addr">>

StepsOf_TimeoutAfterRead(m) ==
    CASE m \in WriteMethods -> <<"open", "addr", "write">>
      [] m = "read" -> <<"open", "addr", "read">>
      [] m = "read_timeout" -> <<"open", "addr", "read", "timeout">>
      [] m = "transfer" -> <<"open", "addr", "xfer">>

StepsOf_SplitTransfer(m) ==
    CASE m \in WriteMethods -> <<"open", "addr", "write">>
      [] m = "read" -> <<"open", "addr", "read">>
      [] m = "read_timeout" -> <<"open", "addr", "timeout", "read">>
      [] m = "transfer" -> <<"open", "addr", "write", "read">>

StepsOf(m) ==
    CASE m \in WriteMethods -> <<"open", "addr", "write">>
      [] m = "read" -> <<"open", "addr", "read">>
      [] m = "read_timeout" -> <<"open", "addr", "timeout", "read">>
      [] m = "transfer" -> <<"open", "addr", "xfer">>

\* let mut msgs = [Message::Write {..}, Message::Read {..}];
TransferMsgs == <<"W", "R">>

NoHandle == [id |-> 0, addr |-> FALSE, timeout |-> FALSE]

NoCall == [id |-> 0, via |-> "none", op |-> "none", method |-> "none",
           command |-> NoCommand, rx_len |-> 0, delay |-> 0]

VARIABLES
    stream,     \* thread -> the transport its Connection owns
    pc,         \* thread -> "idle" | "stream" | "mock" | "done" | "panicked"
    pos,        \* thread -> index of the next system call of the I2CStream method
    call,       \* thread -> the caller's arguments of the current call
    buf,        \* thread -> the buffer handed to the transport
    calls,      \* thread -> the Stream calls issued during the current call
    handle,     \* thread -> the I2c handle of the current I2CStream call
    streamRet,  \* thread -> what the Stream method returned
    result,     \* thread -> what the caller received
    elapsed,    \* thread -> time between write phase and read phase of the last transfer
    bus,        \* the accesses the shared bus has seen, in order
    ncalls,     \* calls started so far
    nhandles    \* handles opened so far

vars == <<stream, pc, pos, call, buf, calls, handle, streamRet, result, elapsed,
          bus, ncalls, nhandles>>

Streams == [kind : {"I2CStream", "Mock"}, sim_timeout : BOOLEAN]

HwStream == [kind |-> "I2CStream", sim_timeout |-> FALSE]

InitFor(T, S) ==
    /\ stream \in [T -> S]
    /\ pc = [t \in T |-> "idle"]
    /\ pos = [t \in T |-> 0]
    /\ call = [t \in T |-> NoCall]
    /\ buf = [t \in T |-> <<>>]
    /\ calls = [t \in T |-> <<>>]
    /\ handle = [t \in T |-> NoHandle]
    /\ streamRet = [t \in T |-> NoResult]
    /\ result = [t \in T |-> NoResult]
    /\ elapsed = [t \in T |-> 0]
    /\ bus = <<>>
    /\ ncalls = 0
    /\ nhandles = 0

\* Connection::new(stream) with a mock, or Connection::from_path(path, slave)
Init == InitFor({1}, {s \in Streams : s.kind = "I2CStream" => ~s.sim_timeout})

\* several threads, each with its own Connection::from_path on the same bus
InitBus == InitFor(1..NumThreads, {HwStream})

\* ---- invoking a Stream method ------------------------------------------
Invoke(t, via, op, command, buffer, rx_len, delay) ==
    LET m == IF via = "connection" THEN StreamMethod(op) ELSE op
    IN /\ ncalls' = ncalls + 1
       /\ call' = [call EXCEPT ![t] = [id |-> ncalls + 1, via |-> via, op |-> op,
                                      method |-> m, command |-> command,
                                      rx_len |-> rx_len, delay |-> delay]]
       /\ buf' = [buf EXCEPT ![t] = buffer]
       /\ calls' = [calls EXCEPT ![t] = <<[method |-> m, buf |-> buffer,
                                           rx_len |-> rx_len, delay |-> delay]>>]
       /\ pc' = [pc EXCEPT ![t] = IF stream[t].kind = "Mock" THEN "mock" ELSE "stream"]
       /\ pos' = [pos EXCEPT ![t] = 1]
       /\ handle' = [handle EXCEPT ![t] = NoHandle]
       /\ streamRet' = [streamRet EXCEPT ![t] = NoResult]
       /\ result' = [result EXCEPT ![t] = NoResult]
       /\ elapsed' = [elapsed EXCEPT ![t] = 0]
       /\ UNCHANGED <<stream, bus, nhandles>>

\* pub fn write(&self, command: Command) -> Result<()>
ConnectionWrite(t, C, limit) ==
    /\ pc[t] = "idle"
    /\ ncalls < limit
    /\ \E command \in C :
          Invoke(t, "connection", "write", command, Flatten(command), 0, 0)

\* pub fn read(&self, command: Command, rx_len: usize) -> Result<Vec<u8>>
ConnectionRead(t, C, R, limit) ==
    /\ pc[t] = "idle"
    /\ ncalls < limit
    /\ \E command \in C, rx_len \in R :
          Invoke(t, "connection", "read", command, Flatten(command), rx_len, 0)

\* pub fn transfer(&self, command: Command, rx_len: usize, delay: Duration)
ConnectionTransfer(t, C, R, D, limit) ==
    /\ pc[t] = "idle"
    /\ ncalls < limit
    /\ \E command \in C, rx_len \in R, delay \in D :
          Invoke(t, "connection", "transfer", command, Flatten(command), rx_len, delay)

\* a caller that uses the Stream directly, with a raw buffer of its own
StreamCall(t, M, B, R, D, limit) ==
    /\ pc[t] = "idle"
    /\ ncalls < limit
    /\ \E m \in M, buffer \in B, rx_len \in R, delay \in D :
          /\ m \in WriteMethods => rx_len = 0
          /\ m # "transfer" => delay = 0
          /\ Invoke(t, "stream", m, NoCommand, buffer, rx_len, delay)

\* ---- returning from a Stream method -------------------------------------
\* the method returns r; the handle is dropped; the caller gets the result
Return(t, r) ==
    /\ pc' = [pc EXCEPT ![t] = "done"]
    /\ streamRet' = [streamRet EXCEPT ![t] = r]
    /\ result' = [result EXCEPT ![t] =
                     IF call[t].via = "connection" THEN ConnResult(r) ELSE r]
    /\ handle' = [handle EXCEPT ![t] = NoHandle]
    /\ pos' = pos

\* the system call succeeded with value r: go on, or return r after the last one
Proceed(t, h, r) ==
    IF pos[t] = Len(StepsOf(call[t].method))
    THEN Return(t, r)
    ELSE /\ pos' = [pos EXCEPT ![t] = pos[t] + 1]
         /\ handle' = [handle EXCEPT ![t] = h]
         /\ streamRet' = [streamRet EXCEPT ![t] = r]
         /\ UNCHANGED <<pc, result>>

AtStep(t, s) ==
    /\ pc[t] = "stream"
    /\ pos[t] <= Len(StepsOf(call[t].method))
    /\ StepsOf(call[t].method)[pos[t]] = s

\* index out of bounds: the thread panics, the handle is dropped
Panic(t) ==
    /\ pc' = [pc EXCEPT ![t] = "panicked"]
    /\ handle' = [handle EXCEPT ![t] = NoHandle]
    /\ UNCHANGED <<pos, streamRet, result>>

Access(t, phase) ==
    [call |-> call[t].id, thread |-> t, method |-> call[t].method, phase |-> phase,
     handle |-> handle[t].id, addr |-> handle[t].addr, timeout |-> handle[t].timeout]

\* let mut i2c = I2c::from_path(self.path.clone())?;
FromPath(t) ==
    /\ AtStep(t, "open")
    /\ \/ /\ nhandles' = nhandles + 1
          /\ Proceed(t, [id |-> nhandles + 1, addr |-> FALSE, timeout |-> FALSE],
                     streamRet[t])
       \/ /\ Return(t, Err("open"))
          /\ UNCHANGED nhandles
    /\ UNCHANGED <<stream, call, buf, calls, elapsed, bus, ncalls>>

\* i2c.smbus_set_slave_address(self.slave, false)?;
SetSlaveAddress(t) ==
    /\ AtStep(t, "addr")
    /\ \/ Proceed(t, [handle[t] EXCEPT !.addr = TRUE], streamRet[t])
       \/ Return(t, Err("addr"))
    /\ UNCHANGED <<stream, call, buf, calls, elapsed, bus, ncalls, nhandles>>

\* i2c.i2c_set_timeout(timeout)?;
SetTimeout(t) ==
    /\ AtStep(t, "timeout")
    /\ \/ Proceed(t, [handle[t] EXCEPT !.timeout = TRUE], streamRet[t])
       \/ Return(t, Err("set_timeout"))
    /\ UNCHANGED <<stream, call, buf, calls, elapsed, bus, ncalls, nhandles>>

\* i2c.i2c_write_block_data(command[0], &command[1..])
BlockWrite(t, E) ==
    /\ AtStep(t, "write")
    /\ IF Len(buf[t]) = 0
       THEN Panic(t) /\ UNCHANGED bus
       ELSE /\ bus' = Append(bus, Access(t, "W"))
            /\ \/ Proceed(t, handle[t], OkUnit)
               \/ \E e \in E : Return(t, Err(e))
    /\ UNCHANGED <<stream, call, buf, calls, elapsed, ncalls, nhandles>>

\* let mut data = vec![0; rx_len];
\* i2c.i2c_read_block_data(command[0], &mut data)?;
\* Ok(data)
BlockRead(t, Dev, E) ==
    /\ AtStep(t, "read")
    /\ IF Len(buf[t]) = 0
       THEN Panic(t) /\ UNCHANGED bus
       ELSE /\ bus' = Append(bus, Access(t, "R"))
            /\ \/ \E k \in 0..call[t].rx_len : \E d \in [1..k -> Dev] :
                     Proceed(t, handle[t], OkBytes(d \o Zeros(call[t].rx_len - k)))
               \/ \E e \in E : Return(t, Err(e))
    /\ UNCHANGED <<stream, call, buf, calls, elapsed, ncalls, nhandles>>

\* return i2c.i2c_transfer(&mut msgs).map(|_| msgs[1].len());
\* one I2C_RDWR request carrying both messages; `delay` is not used
I2cTransfer(t, G, E) ==
    /\ AtStep(t, "xfer")
    /\ \/ /\ bus' = bus \o [i \in 1..Len(TransferMsgs) |-> Access(t, TransferMsgs[i])]
          /\ \E gap \in G : elapsed' = [elapsed EXCEPT ![t] = gap]
          /\ Proceed(t, handle[t], OkCount(call[t].rx_len))
       \/ /\ \E k \in 0..Len(TransferMsgs) :
                bus' = bus \o [i \in 1..k |-> Access(t, TransferMsgs[i])]
          /\ \E e \in E : Return(t, Err(e))
          /\ UNCHANGED elapsed
    /\ UNCHANGED <<stream, call, buf, calls, ncalls, nhandles>>

\* Box<dyn Stream>: any other implementation answers as it likes, except that
\* one set up to simulate a time-out does so under read_timeout
MockRespond(t, Dev) ==
    /\ pc[t] = "mock"
    /\ \E r \in (IF call[t].method \in WriteMethods
                 THEN {OkUnit}
                 ELSE {OkBytes(b) : b \in SeqsUpTo(Dev, MaxRx)})
                \cup {Err(e) : e \in BusErrors} :
          /\ (stream[t].sim_timeout /\ call[t].method = "read_timeout")
                => r = Err("timeout")
          /\ Return(t, r)
    /\ UNCHANGED <<stream, call, buf, calls, elapsed, bus, ncalls, nhandles>>

\* the caller has taken the result; the thread is free for its next call
Finish(t) ==
    /\ pc[t] = "done"
    /\ pc' = [pc EXCEPT ![t] = "idle"]
    /\ pos' = [pos EXCEPT ![t] = 0]
    /\ call' = [call EXCEPT ![t] = NoCall]
    /\ buf' = [buf EXCEPT ![t] = <<>>]
    /\ calls' = [calls EXCEPT ![t] = <<>>]
    /\ streamRet' = [streamRet EXCEPT ![t] = NoResult]
    /\ result' = [result EXCEPT ![t] = NoResult]
    /\ elapsed' = [elapsed EXCEPT ![t] = 0]
    /\ UNCHANGED <<stream, handle, bus, ncalls, nhandles>>

\* ---- specifications -----------------------------------------------------
Buffers == SeqsUpTo(Byte, MaxData)

Next ==
    \E t \in DOMAIN pc :
        \/ ConnectionWrite(t, Command, MaxCalls)
        \/ ConnectionRead(t, Command, 0..MaxRx, MaxCalls)
        \/ ConnectionTransfer(t, Command, 0..MaxRx, 0..MaxDelay, MaxCalls)
        \/ StreamCall(t, Methods, Buffers, 0..MaxRx, 0..MaxDelay, MaxCalls)
        \/ FromPath(t)
        \/ SetSlaveAddress(t)
        \/ SetTimeout(t)
        \/ BlockWrite(t, BusErrors)
        \/ BlockRead(t, Byte, BusErrors)
        \/ I2cTransfer(t, 0..MaxGap, BusErrors)
        \/ MockRespond(t, Byte)
        \/ Finish(t)

Spec == Init /\ [][Next]_vars

OneCommand == {[cmd |-> 1, data |-> <<>>]}

\* one thread, one Connection::from_path, a sequence of calls of all five
\* methods of I2CStream
InitSeq == InitFor({1}, {HwStream})

NextSeq ==
    \E t \in DOMAIN pc :
        \/ ConnectionWrite(t, OneCommand, MaxSeqCalls)
        \/ ConnectionRead(t, OneCommand, {1}, MaxSeqCalls)
        \/ ConnectionTransfer(t, OneCommand, {1}, {0}, MaxSeqCalls)
        \/ StreamCall(t, Methods, {<<1>>}, {0, 1}, {0}, MaxSeqCalls)
        \/ FromPath(t)
        \/ SetSlaveAddress(t)
        \/ SetTimeout(t)
        \/ BlockWrite(t, BusErrors)
        \/ BlockRead(t, {1}, BusErrors)
        \/ I2cTransfer(t, {0}, BusErrors)
        \/ Finish(t)

SpecSeq == InitSeq /\ [][NextSeq]_vars

\* several threads, each calling its own Connection, on the same bus
NextBus ==
    \E t \in DOMAIN pc :
        \/ ConnectionWrite(t, OneCommand, MaxBusCalls)
        \/ ConnectionRead(t, OneCommand, {1}, MaxBusCalls)
        \/ ConnectionTransfer(t, OneCommand, {1}, {0}, MaxBusCalls)
        \/ FromPath(t)
        \/ SetSlaveAddress(t)
        \/ BlockWrite(t, {"nack"})
        \/ BlockRead(t, {1}, {"nack"})
        \/ I2cTransfer(t, {0}, {"nack"})
        \/ Finish(t)

SpecBus == InitBus /\ [][NextBus]_vars

\* ---- properties ---------------------------------------------------------
ViaConnection(t) == call[t].via = "connection"

Hw(t) == stream[t].kind = "I2CStream"

Done(t) == pc[t] = "done"

IsTimeout(r) == ~r.ok /\ r.ty = "err" /\ r.err = "timeout"

BusOf(t) == SelectSeq(bus, LAMBDA a : a.call = call[t].id)

\* C1: for write, read and transfer alike, the buffer a Connection hands to
\* the transport is the command byte followed by the payload in order:
\* position 1 holds cmd, the length is 1 + Len(data), and byte i of the
\* payload sits at position i + 1.
C1_Framing ==
    \A t \in DOMAIN pc :
        (ViaConnection(t) /\ call[t].op \in {"write", "read", "transfer"}) =>
            \A i \in 1..Len(calls[t]) :
                LET b == calls[t][i].buf
                    c == call[t].command
                IN /\ b = buf[t]
                   /\ Len(b) = 1 + Len(c.data)
                   /\ b[1] = c.cmd
                   /\ \A j \in 1..Len(c.data) : b[j + 1] = c.data[j]

C1_Witness ==
    \E t \in DOMAIN pc :
        /\ Done(t) /\ ViaConnection(t) /\ call[t].op = "transfer"
        /\ call[t].command = [cmd |-> 1, data |-> <<0, 1>>]
        /\ calls[t][1].buf = <<1, 0, 1>>

\* C2: Connection::read and Connection::transfer hand the transport's result
\* to the caller unchanged, the bytes of a success and the cause of an error.
C2_ResultUnchanged ==
    \A t \in DOMAIN pc :
        (Done(t) /\ ViaConnection(t) /\ call[t].op \in {"read", "transfer"}) =>
            /\ result[t].ok = streamRet[t].ok
            /\ result[t].ty = streamRet[t].ty
            /\ result[t].bytes = streamRet[t].bytes
            /\ result[t].count = streamRet[t].count
            /\ result[t].err = streamRet[t].err

C2_Witness ==
    \E t \in DOMAIN pc :
        /\ Done(t) /\ ViaConnection(t) /\ ~Hw(t) /\ call[t].op = "transfer"
        /\ call[t].rx_len = 1
        /\ streamRet[t] = OkBytes(<<1>>)
        /\ result[t].bytes = <<1>>

\* C3: when the transport's write fails, Connection::write fails with the
\* same cause, and that call attempted no read, read_timeout or transfer on
\* the transport and no read on the bus.
C3_WriteFailure ==
    \A t \in DOMAIN pc :
        (Done(t) /\ ViaConnection(t) /\ call[t].op = "write" /\ ~streamRet[t].ok) =>
            /\ ~result[t].ok
            /\ result[t].err = streamRet[t].err
            /\ \A i \in 1..Len(calls[t]) : calls[t][i].method \notin ReadMethods
            /\ \A i \in 1..Len(bus) : bus[i].call = call[t].id => bus[i].phase # "R"

C3_Witness ==
    \E t \in DOMAIN pc :
        /\ Done(t) /\ ViaConnection(t) /\ call[t].op = "write"
        /\ Hw(t) /\ streamRet[t] = Err("nack") /\ result[t] = Err("nack")
        /\ Len(BusOf(t)) = 1

\* C4: in every successful transfer over the production transport, at least
\* `delay` elapses between the end of the write phase and the start of the
\* read phase.
C4_DelayHonored ==
    \A t \in DOMAIN pc :
        (Done(t) /\ Hw(t) /\ call[t].method = "transfer" /\ streamRet[t].ok) =>
            elapsed[t] >= call[t].delay

\* in I2CStream::read_timeout the timeout is set on the handle before the
\* block read is issued
TimeoutBeforeRead ==
    \A i \in 1..Len(bus) :
        (bus[i].method = "read_timeout" /\ bus[i].phase = "R") => bus[i].timeout

\* C5 (as claimed): with a transport whose read_timeout reports a timeout,
\* the Connection-level read fails with a timeout-classified error; and
\* read_timeout sets the timeout before the block read.
C5_TimeoutAsClaimed ==
    /\ \A t \in DOMAIN pc :
          (Done(t) /\ ViaConnection(t) /\ call[t].op = "read"
                   /\ stream[t].sim_timeout) => IsTimeout(result[t])
    /\ TimeoutBeforeRead

\* C5 (amended): Connection::read invokes the transport's read and never
\* read_timeout, so it fails with a timeout-classified error exactly when
\* the transport's read reports one; read_timeout itself, called on a
\* transport set up to time out, fails with a timeout-classified error; and
\* I2CStream::read_timeout sets the timeout before the block read.
C5_TimeoutAmended ==
    /\ \A t \in DOMAIN pc :
          (Done(t) /\ ViaConnection(t) /\ call[t].op = "read") =>
              /\ \A i \in 1..Len(calls[t]) : calls[t][i].method = "read"
              /\ IsTimeout(result[t]) <=> IsTimeout(streamRet[t])
    /\ \A t \in DOMAIN pc :
          (Done(t) /\ call[t].method = "read_timeout" /\ stream[t].sim_timeout) =>
              IsTimeout(result[t])
    /\ TimeoutBeforeRead

C5_Witness ==
    \E t \in DOMAIN pc :
        /\ Done(t) /\ ViaConnection(t) /\ call[t].op = "read"
        /\ stream[t].sim_timeout
        /\ result[t].ok

\* C6: every successful read, read_timeout and transfer of the production
\* transport returns a byte sequence of exactly rx_len bytes (not a count).
C6_ExactLength ==
    \A t \in DOMAIN pc :
        (Done(t) /\ Hw(t) /\ call[t].method \in ReadMethods /\ streamRet[t].ok) =>
            /\ streamRet[t].ty = "bytes"
            /\ Len(streamRet[t].bytes) = call[t].rx_len

\* C7: a Connection call issues exactly one call on the transport, of the
\* matching kind, whether it succeeds or fails; at most one bus operation
\* results from it, and a failure is not replaced by a success.
C7_OneCall ==
    \A t \in DOMAIN pc :
        (ViaConnection(t) /\ pc[t] # "idle") =>
            /\ Len(calls[t]) = 1
            /\ calls[t][1].method = call[t].op
            /\ Cardinality({i \in 1..Len(bus) :
                   bus[i].call = call[t].id /\ bus[i].phase = "W"}) <= 1
            /\ Cardinality({i \in 1..Len(bus) :
                   bus[i].call = call[t].id /\ bus[i].phase = "R"}) <= 1
            /\ Done(t) => (result[t].ok <=> streamRet[t].ok)

C7_Witness ==
    \E t \in DOMAIN pc :
        /\ Done(t) /\ ViaConnection(t) /\ Hw(t) /\ call[t].op = "read"
        /\ ~result[t].ok /\ result[t].err = "nack"
        /\ Len(BusOf(t)) = 1

\* C8: every bus operation of the production transport is issued on a handle
\* that was opened in the same call and had its slave address set; handles
\* are not shared between calls; a call whose open or address step failed
\* returns that error and issued no bus operation.
C8_OpenAddrBus ==
    /\ \A i \in 1..Len(bus) : bus[i].handle # 0 /\ bus[i].addr
    /\ \A i, j \in 1..Len(bus) :
          (bus[i].call = bus[j].call) <=> (bus[i].handle = bus[j].handle)
    /\ \A t \in DOMAIN pc :
          /\ (Done(t) /\ Hw(t) /\ streamRet[t].err \in {"open", "addr"}) =>
                 /\ ~result[t].ok
                 /\ Len(BusOf(t)) = 0
          /\ (Done(t) /\ Hw(t) /\ streamRet[t].ok) => Len(BusOf(t)) >= 1

C8_Witness ==
    /\ \E i, j \in 1..Len(bus) : bus[i].call # bus[j].call
    /\ \E t \in DOMAIN pc :
          /\ Done(t) /\ streamRet[t] = Err("addr")
          /\ call[t].id = 3

C10_NonEmpty ==
    \A t \in DOMAIN pc :
        ViaConnection(t) =>
            /\ \A i \in 1..Len(calls[t]) : Len(calls[t][i].buf) >= 1
            /\ pc[t] # "panicked"

C10_Witness ==
    \E t \in DOMAIN pc :
        /\ Done(t) /\ ViaConnection(t) /\ Hw(t)
        /\ call[t].command.data = <<>>
        /\ call[t].op = "write"
        /\ streamRet[t] = OkUnit

====
